---------------------------- MODULE Spec2Model ----------------------------
(***************************************************************************)
(* Model of GameBoardComponent (src/app/game-board/game-board.component.ts) *)
(* a 3x3 tic-tac-toe board with a two-player mode and a single-player mode  *)
(* whose automated opponent picks its moves by an unpruned minimax search.  *)
(*                                                                         *)
(* A board is a function row -> (column -> mark), as the string[][] grid of *)
(* the component: marks are the strings "X", "O" and "" (empty).  A row is  *)
(* a JavaScript array, so its set of columns can grow when a cell outside   *)
(* 0..2 is written; reading a missing cell yields undefined.                *)
(***************************************************************************)
EXTENDS Integers, Sequences, FiniteSets, TLC

VARIABLES
  grid,            \* this.grid
  currentPlayer,   \* this.currentPlayer
  gameStatus,      \* this.gameStatus
  selectedPlayer,  \* this.selectedPlayer
  gameStarted,     \* this.gameStarted
  gameMode,        \* this.gameMode
  failure,         \* the exception the last call ended with ("" when it returned)
  board,           \* search harness: the board handed to the pure functions
  aiSymbol,        \* search harness: the symbol the search optimises for
  phase,           \* search harness: "input", "searched" or "judged"
  found,           \* search harness: what getBestMove computed on board
  verdict,         \* search harness: what checkWin and isDraw say of board
  start            \* search harness: the board and mover the run began with

vars == <<grid, currentPlayer, gameStatus, selectedPlayer, gameStarted,
          gameMode, failure, board, aiSymbol, phase, found, verdict, start>>

gameVars == <<grid, currentPlayer, gameStatus, selectedPlayer, gameStarted,
              gameMode, failure>>

harnessVars == <<board, aiSymbol, phase, found, verdict, start>>

---------------------------------------------------------------------------
(* Bounds of the model *)

\* The search harness runs getBestMove on every board with at most this many
\* empty cells.
MaxEmptyCells == 4

\* Under Spec a call that runs the search is explored on boards with at most
\* this many empty cells left for the search.
MaxSearchCells == 4

\* How far outside 0..2 the coordinates of SpecRange's makeMove calls go.
OutOfRange == 1

---------------------------------------------------------------------------
(* Values *)

\* JavaScript's Infinity: larger than every score minimax can return.
Infinity == 1000

\* What reading a missing array element yields.
undefined == "undefined"

Symbols == {"X", "O"}

Marks == {"", "X", "O"}

Modes == {"single", "multi"}

Rows == 0..2

Cols == 0..2

\* Array(3).fill(null).map(() => Array(3).fill(''))
emptyGrid == [row \in Rows |-> [col \in Cols |-> ""]]

\* The cells of the board in the order of the two nested loops of
\* getAvailableMoves: row 0..2, and col 0..2 within each row.
rowMajorCells ==
  << <<0, 0>>, <<0, 1>>, <<0, 2>>,
     <<1, 0>>, <<1, 1>>, <<1, 2>>,
     <<2, 0>>, <<2, 1>>, <<2, 2>> >>

winningCombinations ==
  << << <<0, 0>>, <<0, 1>>, <<0, 2>> >>,
     << <<1, 0>>, <<1, 1>>, <<1, 2>> >>,
     << <<2, 0>>, <<2, 1>>, <<2, 2>> >>,
     << <<0, 0>>, <<1, 0>>, <<2, 0>> >>,
     << <<0, 1>>, <<1, 1>>, <<2, 1>> >>,
     << <<0, 2>>, <<1, 2>>, <<2, 2>> >>,
     << <<0, 0>>, <<1, 1>>, <<2, 2>> >>,
     << <<0, 2>>, <<1, 1>>, <<2, 0>> >> >>

---------------------------------------------------------------------------
(* The rule functions *)

\* A variant of checkWin that looks for the lines of X only.
checkWinOfX(b) ==
  \E i \in 1..Len(winningCombinations) :
    LET combination == winningCombinations[i]
    IN \A j \in 1..3 : b[combination[j][1]][combination[j][2]] = "X"

\* winningCombinations.some(c => c.every(O) || c.every(X))
checkWin(b) ==
  \E i \in 1..Len(winningCombinations) :
    LET combination == winningCombinations[i]
    IN \/ \A j \in 1..3 : b[combination[j][1]][combination[j][2]] = "O"
       \/ \A j \in 1..3 : b[combination[j][1]][combination[j][2]] = "X"

\* A variant of isDraw that asks for one full row only (some for every).
isDrawSomeRow(b) ==
  \E row \in DOMAIN b :
    \A col \in {k \in DOMAIN b[row] : k >= 0} : b[row][col] # ""

\* board.every(row => row.every(cell => cell !== '')): every element of every
\* row array, which are the columns >= 0 the row holds.
isDraw(b) ==
  \A row \in DOMAIN b :
    \A col \in {k \in DOMAIN b[row] : k >= 0} : b[row][col] # ""

\* A variant of getAvailableMoves with its two loops exchanged.
getAvailableMovesColumnMajor(b) ==
  SelectSeq([i \in 1..9 |-> <<rowMajorCells[i][2], rowMajorCells[i][1]>>],
            LAMBDA cell : b[cell[1]][cell[2]] = "")

getAvailableMoves(b) ==
  SelectSeq(rowMajorCells, LAMBDA cell : b[cell[1]][cell[2]] = "")

\* The cells of the 3x3 board that hold no mark.
EmptyCells(b) == {cell \in Rows \X Cols : b[cell[1]][cell[2]] = ""}

EmptyCount(b) == Cardinality(EmptyCells(b))

---------------------------------------------------------------------------
(* The search *)

SetMax(S) == CHOOSE s \in S : \A t \in S : s >= t

SetMin(S) == CHOOSE s \in S : \A t \in S : s =< t

\* A variant of foldScores that maximises on the player's plies too.
foldScoresAlwaysMax(isMaximizing, scores) == SetMax(scores \cup {-Infinity})

\* The loop of minimax folds Math.max (for the automated side) or Math.min
\* (for the player) over the scores of all the available moves, starting from
\* -Infinity or Infinity: the maximum or minimum of those scores and the
\* starting value.
foldScores(isMaximizing, scores) ==
  IF isMaximizing THEN SetMax(scores \cup {-Infinity})
                  ELSE SetMin(scores \cup {Infinity})

\* A variant of winScore that forgets the depth.
winScoreFlat(depth, isMaximizing) == IF isMaximizing THEN -10 ELSE 10

\* A variant of winScore with the two sides exchanged.
winScoreSwapped(depth, isMaximizing) ==
  IF isMaximizing THEN 10 - depth ELSE -10 + depth

\* The score of a board with a completed line: the side to move has lost.
winScore(depth, isMaximizing) ==
  IF isMaximizing THEN -10 + depth ELSE 10 - depth

\* Each available move is made on the board, scored one ply deeper for the
\* other side, and undone.
RECURSIVE minimax(_, _, _, _, _)
minimax(b, depth, isMaximizing, ai, playerSymbol) ==
  IF checkWin(b) THEN winScore(depth, isMaximizing)
  ELSE IF isDraw(b) THEN 0
  ELSE LET availableMoves == getAvailableMoves(b)
           scores ==
             { minimax([b EXCEPT ![availableMoves[i][1]][availableMoves[i][2]] =
                            IF isMaximizing THEN ai ELSE playerSymbol],
                       depth + 1, ~isMaximizing, ai, playerSymbol) :
               i \in 1..Len(availableMoves) }
       IN foldScores(isMaximizing, scores)

\* A variant of trialBoard that leaves the cell of the move unmarked.
trialBoardUnmarked(b, move, symbol) == b

\* board[row][col] = symbol: the trial mark of a move is written.
trialBoard(b, move, symbol) == [b EXCEPT ![move[1]][move[2]] = symbol]

\* The tree of calls below minimax(b, depth, isMaximizing, ...): whether in
\* this call and in every call it leads to the depth argument is at most
\* maxDepth and the board of each recursive call has one empty cell fewer
\* than the board of the call that makes it.
RECURSIVE minimaxDescends(_, _, _, _, _, _)
minimaxDescends(b, depth, isMaximizing, ai, playerSymbol, maxDepth) ==
  /\ depth <= maxDepth
  /\ \/ checkWin(b)
     \/ isDraw(b)
     \/ LET availableMoves == getAvailableMoves(b)
        IN \A i \in 1..Len(availableMoves) :
             LET trial == trialBoard(b, availableMoves[i],
                                     IF isMaximizing THEN ai ELSE playerSymbol)
             IN /\ EmptyCount(trial) = EmptyCount(b) - 1
                /\ minimaxDescends(trial, depth + 1, ~isMaximizing, ai,
                                   playerSymbol, maxDepth)

\* A variant of moveScore that scores the position as if the mover moved again.
moveScoreSameSide(b, ai, cell) ==
  minimax([b EXCEPT ![cell[1]][cell[2]] = ai], 0, TRUE, ai,
          IF ai = "X" THEN "O" ELSE "X")

\* The score getBestMove gives to one candidate cell: the mark is placed and
\* the position scored for the opponent to move, at depth 0.
moveScore(b, ai, cell) ==
  minimax([b EXCEPT ![cell[1]][cell[2]] = ai], 0, FALSE, ai,
          IF ai = "X" THEN "O" ELSE "X")

\* A variant of improves that lets a tie replace the best move so far.
improvesOrTies(score, bestScore) == score >= bestScore

\* The test that lets a later candidate replace the best one so far.
improves(score, bestScore) == score > bestScore

\* The loop of getBestMove from its i-th candidate on: best holds bestMove
\* and bestScore.
RECURSIVE bestMoveLoop(_, _, _, _, _)
bestMoveLoop(b, ai, availableMoves, i, best) ==
  IF i > Len(availableMoves) THEN best
  ELSE LET score == moveScore(b, ai, availableMoves[i])
       IN bestMoveLoop(b, ai, availableMoves, i + 1,
                       IF improves(score, best.bestScore)
                         THEN [bestMove |-> availableMoves[i], bestScore |-> score]
                         ELSE best)

\* getBestMove with its local bestScore kept beside the move it returns.
bestMoveSearch(b, ai) ==
  bestMoveLoop(b, ai, getAvailableMoves(b), 1,
               [bestMove |-> <<-1, -1>>, bestScore |-> -Infinity])

getBestMove(b, ai) == bestMoveSearch(b, ai).bestMove

---------------------------------------------------------------------------
(* The component's methods, as functions from the component's state before *)
(* a call to its state after it.  A state is a record of the fields and of  *)
(* failure, the exception that ended the call.                             *)

This ==
  [grid |-> grid, currentPlayer |-> currentPlayer, gameStatus |-> gameStatus,
   selectedPlayer |-> selectedPlayer, gameStarted |-> gameStarted,
   gameMode |-> gameMode, failure |-> failure]

\* The state a call starts from: no exception is pending.
Called == [This EXCEPT !.failure = ""]

\* `${symbol} Wins!`
Wins(symbol) == symbol \o " Wins!"

\* this.grid[row][col], for a row the grid holds.
cellAt(g, row, col) == IF col \in DOMAIN g[row] THEN g[row][col] ELSE undefined

\* !value for a cell's value: '' and undefined are falsy.
falsy(value) == value = "" \/ value = undefined

\* this.grid[row][col] = symbol, for a row the grid holds: an assignment to
\* a column the row array lacks adds it.
setCell(g, row, col, symbol) ==
  IF col \in DOMAIN g[row]
    THEN [g EXCEPT ![row][col] = symbol]
    ELSE [g EXCEPT ![row] = (col :> symbol) @@ g[row]]

resetGame(s) ==
  [s EXCEPT !.grid = emptyGrid,
            !.currentPlayer = IF s.selectedPlayer # "" THEN s.selectedPlayer ELSE "X",
            !.gameStatus = "Playing"]

\* A variant of aiSymbolFor that gives the automated side the symbol the
\* player selected.
aiSymbolForSelected(selected) == IF selected = "X" THEN "X" ELSE "O"

\* The symbol of the automated side: this.selectedPlayer === 'X' ? 'O' : 'X'
aiSymbolFor(selected) == IF selected = "X" THEN "O" ELSE "X"

\* board[row][col] = '': the trial mark of a move is taken back.
undoTrial(b, move) == [b EXCEPT ![move[1]][move[2]] = ""]

\* The board as getBestMove leaves it, from its i-th candidate on.  The
\* search works on the array it is given, this.grid itself: it writes the
\* trial mark of each available move on it and takes it back.
RECURSIVE afterTrials(_, _, _, _)
afterTrials(b, ai, availableMoves, i) ==
  IF i > Len(availableMoves) THEN b
  ELSE afterTrials(
         undoTrial([b EXCEPT ![availableMoves[i][1]][availableMoves[i][2]] = ai],
                   availableMoves[i]),
         ai, availableMoves, i + 1)

\* this.grid[bestMove[0]] is undefined for the (-1,-1) getBestMove returns on
\* a board without an empty cell: the assignment throws a TypeError.
aiMove(s) ==
  LET ai == aiSymbolFor(s.selectedPlayer)
      bestMove == getBestMove(s.grid, ai)
  IN IF bestMove[1] \notin DOMAIN s.grid
       THEN [s EXCEPT !.failure = "TypeError"]
       ELSE LET searched == afterTrials(s.grid, ai, getAvailableMoves(s.grid), 1)
                g == setCell(searched, bestMove[1], bestMove[2], ai)
            IN IF checkWin(g)
                 THEN [s EXCEPT !.grid = g, !.gameStatus = Wins(ai)]
               ELSE IF isDraw(g)
                 THEN [s EXCEPT !.grid = g, !.gameStatus = "Draw!"]
               ELSE [s EXCEPT !.grid = g, !.currentPlayer = s.selectedPlayer]

startGame(s) ==
  IF s.selectedPlayer # ""
    THEN LET started == [s EXCEPT !.gameStarted = TRUE]
             opened ==
               IF started.gameMode = "single"
                 THEN IF started.selectedPlayer = "X"
                        THEN [started EXCEPT !.currentPlayer = "X"]
                        ELSE aiMove([started EXCEPT !.currentPlayer = "X"])
                 ELSE started
         IN IF opened.failure # "" THEN opened ELSE resetGame(opened)
    ELSE s

selectPlayer(s, player) == [s EXCEPT !.selectedPlayer = player]

\* A variant of accepts that forgets whether the cell is empty.
acceptsAnyCell(s, row, col) == s.gameStatus = "Playing"

\* A variant of accepts that forgets the status of the game.
acceptsAnyStatus(s, row, col) == falsy(cellAt(s.grid, row, col))

\* The test of makeMove: !this.grid[row][col] && this.gameStatus === 'Playing'
accepts(s, row, col) ==
  falsy(cellAt(s.grid, row, col)) /\ s.gameStatus = "Playing"

\* A variant of placeMark that tests isDraw before checkWin.
placeMarkDrawFirst(s, row, col) ==
  LET g == setCell(s.grid, row, col, s.currentPlayer)
  IN IF isDraw(g)
       THEN [s EXCEPT !.grid = g, !.gameStatus = "Draw!"]
     ELSE IF checkWin(g)
       THEN [s EXCEPT !.grid = g, !.gameStatus = Wins(s.currentPlayer)]
     ELSE LET switched ==
                [s EXCEPT !.grid = g,
                          !.currentPlayer =
                            IF s.currentPlayer = "X" THEN "O" ELSE "X"]
          IN IF switched.gameMode = "single" THEN aiMove(switched) ELSE switched

\* The body of makeMove's test: the mark of the current player is written,
\* the status recomputed and, while the game goes on, the turn switched and
\* in single-player mode the automated move played.
placeMark(s, row, col) ==
  LET g == setCell(s.grid, row, col, s.currentPlayer)
  IN IF checkWin(g)
       THEN [s EXCEPT !.grid = g, !.gameStatus = Wins(s.currentPlayer)]
     ELSE IF isDraw(g)
       THEN [s EXCEPT !.grid = g, !.gameStatus = "Draw!"]
     ELSE LET switched ==
                [s EXCEPT !.grid = g,
                          !.currentPlayer =
                            IF s.currentPlayer = "X" THEN "O" ELSE "X"]
          IN IF switched.gameMode = "single" THEN aiMove(switched) ELSE switched

\* this.grid[row] is undefined for a row the grid lacks: reading its column
\* throws a TypeError.
makeMove(s, row, col) ==
  IF row \notin DOMAIN s.grid
    THEN [s EXCEPT !.failure = "TypeError"]
  ELSE IF accepts(s, row, col) THEN placeMark(s, row, col)
  ELSE s

setGameMode(s, mode) == [s EXCEPT !.gameMode = mode, !.gameStarted = FALSE]

resetPage(s) ==
  [resetGame(s) EXCEPT !.selectedPlayer = "", !.gameStarted = FALSE, !.gameMode = ""]

---------------------------------------------------------------------------
(* The search harness: the pure functions applied to the 3x3 boards, and   *)
(* the self-play that places the move getBestMove returns for the side to  *)
(* move.                                                                   *)

Other(symbol) == IF symbol = "X" THEN "O" ELSE "X"

\* Whether player p holds one of the 8 lines of b.
HasLine(b, p) ==
  \/ \E row \in Rows : \A col \in Cols : b[row][col] = p
  \/ \E col \in Cols : \A row \in Rows : b[row][col] = p
  \/ \A k \in Rows : b[k][k] = p
  \/ \A k \in Rows : b[k][2 - k] = p

Place(b, cell, symbol) == [b EXCEPT ![cell[1]][cell[2]] = symbol]

\* Scenario A of the specification: X to move, two cells complete a line.
ScenarioA ==
  [row \in Rows |->
     [col \in Cols |->
        IF row = 2 THEN "" ELSE IF (row + col) % 2 = 0 THEN "X" ELSE "O"]]

\* Scenario B of the specification: O to move must block the top row.
ScenarioB ==
  [row \in Rows |->
     [col \in Cols |->
        IF row = 0 /\ col < 2 THEN "X"
        ELSE IF row = 1 /\ col = 0 THEN "O" ELSE ""]]

\* Scenario C of the specification: a full board without a completed line.
ScenarioC ==
  [row \in Rows |->
     [col \in Cols |->
        << <<"X", "O", "X">>, <<"X", "O", "O">>, <<"O", "X", "X">> >>[row + 1][col + 1]]]

\* Every 3x3 board over the three marks.
Boards == [Rows -> [Cols -> Marks]]

\* The search is run on the boards with at most MaxEmptyCells empty cells
\* and on the boards of the runs that began with the empty board or with a
\* scenario of the specification.
Searchable ==
  \/ EmptyCount(board) <= MaxEmptyCells
  \/ start.board \in {emptyGrid, ScenarioA, ScenarioB}

NoSearch == [bestMove |-> <<-1, -1>>, bestScore |-> 0]

NoVerdict == [win |-> FALSE, draw |-> FALSE]

\* The state the constructor leaves: resetGame() on the field initialisers.
GameInit ==
  /\ grid = emptyGrid
  /\ currentPlayer = "X"
  /\ gameStatus = "Playing"
  /\ selectedPlayer = ""
  /\ gameStarted = FALSE
  /\ gameMode = ""
  /\ failure = ""

HarnessIdle ==
  /\ board = emptyGrid
  /\ aiSymbol = "X"
  /\ phase = "idle"
  /\ found = NoSearch
  /\ verdict = NoVerdict
  /\ start = [board |-> emptyGrid, mover |-> "X"]

InitSearch ==
  /\ GameInit
  /\ board \in Boards
  /\ aiSymbol \in Symbols
  /\ phase = "input"
  /\ found = NoSearch
  /\ verdict = NoVerdict
  /\ start = [board |-> board, mover |-> aiSymbol]

\* getBestMove(board, aiSymbol)
Search ==
  /\ phase = "input"
  /\ Searchable
  /\ found' = bestMoveSearch(board, aiSymbol)
  /\ phase' = "searched"
  /\ UNCHANGED <<board, aiSymbol, verdict, start>>
  /\ UNCHANGED gameVars

\* checkWin(board) and isDraw(board)
Judge ==
  /\ phase = "input"
  /\ verdict' = [win |-> checkWin(board), draw |-> isDraw(board)]
  /\ phase' = "judged"
  /\ UNCHANGED <<board, aiSymbol, found, start>>
  /\ UNCHANGED gameVars

\* Self-play: while the board has no completed line and is not full, the
\* mark of the side to move is placed on the cell getBestMove returned, and
\* the other side is to move.
Play ==
  /\ phase = "searched"
  /\ ~checkWin(board)
  /\ ~isDraw(board)
  /\ board' = Place(board, found.bestMove, aiSymbol)
  /\ aiSymbol' = Other(aiSymbol)
  /\ phase' = "input"
  /\ found' = NoSearch
  /\ UNCHANGED <<verdict, start>>
  /\ UNCHANGED gameVars

NextSearch == Search \/ Judge \/ Play

SpecSearch == InitSearch /\ [][NextSearch]_vars

---------------------------------------------------------------------------
(* The component: one action per public method *)

Init == GameInit /\ HarnessIdle

\* The fields after a call are those of the state s the method computed.
Becomes(s) ==
  /\ grid' = s.grid
  /\ currentPlayer' = s.currentPlayer
  /\ gameStatus' = s.gameStatus
  /\ selectedPlayer' = s.selectedPlayer
  /\ gameStarted' = s.gameStarted
  /\ gameMode' = s.gameMode
  /\ failure' = s.failure
  /\ UNCHANGED harnessVars

SelectPlayer(player) == Becomes(selectPlayer(Called, player))

SetGameMode(mode) == Becomes(setGameMode(Called, mode))

StartGame == Becomes(startGame(Called))

MakeMove(row, col) == Becomes(makeMove(Called, row, col))

ResetGame == Becomes(resetGame(Called))

ResetPage == Becomes(resetPage(Called))

\* Whether startGame in this state runs the search, and on how many cells.
StartSearches == selectedPlayer \notin {"", "X"} /\ gameMode = "single"

\* Whether makeMove in this state is explored: its automated move, if it
\* plays one, has at most MaxSearchCells empty cells to search.
MoveExplored == gameMode = "single" => EmptyCount(grid) <= MaxSearchCells + 1

\* Every public method, called in any order with any in-range cell.  The
\* calls that run the search are explored on boards where the search has at
\* most MaxSearchCells empty cells to fill.
Next ==
  \/ \E player \in Symbols : SelectPlayer(player)
  \/ \E mode \in Modes : SetGameMode(mode)
  \/ /\ StartSearches => EmptyCount(grid) <= MaxSearchCells
     /\ StartGame
  \/ \E row \in Rows, col \in Cols :
       /\ MoveExplored
       /\ MakeMove(row, col)
  \/ ResetGame
  \/ ResetPage

Spec == Init /\ [][Next]_vars

\* A single-player game: selectPlayer(p), setGameMode('single'), startGame(),
\* and then any sequence of makeMove calls on in-range cells.
NextSingle ==
  \/ /\ selectedPlayer = ""
     /\ \E player \in Symbols : SelectPlayer(player)
  \/ /\ selectedPlayer # ""
     /\ gameMode = ""
     /\ SetGameMode("single")
  \/ /\ gameMode = "single"
     /\ ~gameStarted
     /\ StartGame
  \/ /\ gameStarted
     /\ \E row \in Rows, col \in Cols : MakeMove(row, col)

SpecSingle == Init /\ [][NextSingle]_vars

\* The coordinates makeMove is called with under SpecRange.
Coords == (0 - OutOfRange)..(2 + OutOfRange)

\* The cells the grid holds outside the 3x3 board.
StrayCells(g) ==
  {cell \in (DOMAIN g) \X Coords : cell[2] \in (DOMAIN g[cell[1]]) \ Cols}

\* A two-player game whose makeMove calls may name cells outside the board;
\* it is explored until the grid holds a cell outside the board.
NextRange ==
  \/ /\ StrayCells(grid) = {}
     /\ \E row \in Coords, col \in Coords : MakeMove(row, col)
  \/ ResetGame

SpecRange == Init /\ [][NextRange]_vars

---------------------------------------------------------------------------
(* Claims about the search and the rule functions, under SpecSearch *)

Searched == phase = "searched"

NonTerminal(b) == ~HasLine(b, "X") /\ ~HasLine(b, "O") /\ EmptyCells(b) # {}

\* The empty cells of b on which a mark of p completes a line of p.
CompletingCells(b, p) == {cell \in EmptyCells(b) : HasLine(Place(b, cell, p), p)}

\* C6 as stated: on Scenario A with mover X getBestMove returns (2,2) with
\* top score 10.
C6Original ==
  (Searched /\ board = ScenarioA /\ aiSymbol = "X")
    => (found.bestMove = <<2, 2>> /\ found.bestScore = 10)

\* C6 as amended: on Scenario A with mover X both (2,0) and (2,2) complete a
\* line of X and score 10; getBestMove returns (2,0), the first of them in
\* row-major order, which completes the anti-diagonal, with top score 10.
C6ScenarioA ==
  (Searched /\ board = ScenarioA /\ aiSymbol = "X")
    => /\ found.bestMove = <<2, 0>>
       /\ found.bestScore = 10
       /\ CompletingCells(ScenarioA, "X") = {<<2, 0>>, <<2, 2>>}
       /\ \A k \in Rows : Place(board, found.bestMove, "X")[k][2 - k] = "X"

C6Witness ==
  Searched /\ board = ScenarioA /\ aiSymbol = "X" /\ found.bestScore = 10

\* The row-major-first cell among the empty cells of b whose score for the
\* mover is the maximum of the scores of all the empty cells.
FirstBestCell(b, mover) ==
  LET cells == SelectSeq(rowMajorCells, LAMBDA cell : cell \in EmptyCells(b))
      score == [i \in 1..Len(cells) |-> moveScore(b, mover, cells[i])]
      top == SetMax({score[i] : i \in 1..Len(cells)})
      first == CHOOSE i \in 1..Len(cells) :
                 /\ score[i] = top
                 /\ \A j \in 1..(i - 1) : score[j] # top
  IN cells[first]

\* C7: on every board without a completed line and with an empty cell, for
\* either mover, getBestMove returns the row-major-first cell among the empty
\* cells whose minimax score is the maximum; on the empty board with mover X
\* that is (0,0).
C7TieBreak ==
  /\ (Searched /\ NonTerminal(board))
       => found.bestMove = FirstBestCell(board, aiSymbol)
  /\ (Searched /\ board = emptyGrid /\ aiSymbol = "X")
       => found.bestMove = <<0, 0>>

\* The empty board searched for X: all nine first moves score 0.
C7Witness ==
  /\ Searched
  /\ board = emptyGrid
  /\ aiSymbol = "X"
  /\ found = [bestMove |-> <<0, 0>>, bestScore |-> 0]

SelfPlayFromEmpty == start = [board |-> emptyGrid, mover |-> "X"]

Ended(b) == HasLine(b, "X") \/ HasLine(b, "O") \/ EmptyCells(b) = {}

\* C8: self-play from the empty board with X to move ends with a full board
\* on which neither player has a completed line; until then the marks
\* alternate, X first.
C8SelfPlayDraw ==
  SelfPlayFromEmpty =>
    /\ Ended(board) => (EmptyCells(board) = {} /\ ~HasLine(board, "X")
                                              /\ ~HasLine(board, "O"))
    /\ aiSymbol = (IF Cardinality(EmptyCells(board)) % 2 = 1 THEN "X" ELSE "O")

C8Witness ==
  /\ SelfPlayFromEmpty
  /\ EmptyCells(board) = {}
  /\ ~HasLine(board, "X")
  /\ ~HasLine(board, "O")
  /\ phase = "searched"

Judged == phase = "judged"

C10BlocksThreat ==
  /\ (/\ Searched
      /\ NonTerminal(board)
      /\ CompletingCells(board, aiSymbol) = {}
      /\ Cardinality(CompletingCells(board, Other(aiSymbol))) = 1)
       => found.bestMove \in CompletingCells(board, Other(aiSymbol))
  /\ (Searched /\ board = ScenarioB /\ aiSymbol = "O")
       => found.bestMove = <<0, 2>>

C10Witness ==
  /\ Searched
  /\ board = ScenarioB
  /\ aiSymbol = "O"
  /\ CompletingCells(board, "O") = {}
  /\ CompletingCells(board, "X") = {<<0, 2>>}
  /\ found.bestMove = <<0, 2>>

\* C17: on every board with k >= 1 empty cells, for either mover,
\* getBestMove returns, with one of the empty cells; the board of its call of
\* minimax for a candidate, and of every recursive call of minimax, has one
\* empty cell fewer than the caller's, and the depth argument never exceeds
\* k - 1, which is at most 8.
C17SearchBounded ==
  (Searched /\ EmptyCells(board) # {}) =>
    LET k == EmptyCount(board)
        availableMoves == getAvailableMoves(board)
    IN /\ found.bestMove \in EmptyCells(board)
       /\ k - 1 <= 8
       /\ \A i \in 1..Len(availableMoves) :
            LET trial == trialBoard(board, availableMoves[i], aiSymbol)
            IN /\ EmptyCount(trial) = k - 1
               /\ minimaxDescends(trial, 0, FALSE, aiSymbol, Other(aiSymbol), k - 1)

\* The empty board searched for O: k = 9, and the search goes down to a
\* full board, at depth 8.
C17Witness ==
  /\ Searched
  /\ board = emptyGrid
  /\ aiSymbol = "O"
  /\ found.bestMove \in EmptyCells(board)
  /\ ~minimaxDescends(trialBoard(board, <<0, 0>>, "O"), 0, FALSE, "O", "X", 7)

\* C18: on every board without a completed line, for either mover, if some
\* empty cell completes a line of the mover then getBestMove returns such a
\* cell, with score 10, and every empty cell that does not complete a line
\* of the mover scores less than 10.
C18QuickestWin ==
  (/\ Searched
   /\ ~HasLine(board, "X")
   /\ ~HasLine(board, "O")
   /\ CompletingCells(board, aiSymbol) # {})
    => /\ found.bestMove \in CompletingCells(board, aiSymbol)
       /\ found.bestScore = 10
       /\ \A cell \in EmptyCells(board) \ CompletingCells(board, aiSymbol) :
            moveScore(board, aiSymbol, cell) < 10

\* A board whose only completing cell is not the first candidate, and whose
\* first candidate wins too, but later.
C18Witness ==
  /\ Searched
  /\ NonTerminal(board)
  /\ Cardinality(CompletingCells(board, aiSymbol)) = 1
  /\ found.bestMove # getAvailableMoves(board)[1]
  /\ found.bestScore = 10
  /\ moveScore(board, aiSymbol, getAvailableMoves(board)[1]) = 8

---------------------------------------------------------------------------
(* Claims about the component *)

Marked(g, symbol) == {cell \in Rows \X Cols : g[cell[1]][cell[2]] = symbol}

\* C1: in a single-player game started by selectPlayer(p),
\* setGameMode('single'), startGame(), whatever cells makeMove is called
\* with, the status never becomes 'p Wins!': it is 'Playing', 'Draw!' or a
\* win of the automated symbol, and the human never holds a line.
C1AutomatedNeverLoses ==
  selectedPlayer \in Symbols =>
    /\ gameStatus # Wins(selectedPlayer)
    /\ gameStatus \in {"Playing", "Draw!", Wins(Other(selectedPlayer))}
    /\ ~HasLine(grid, selectedPlayer)

\* A game the automated side has won against a human playing X.
C1Witness ==
  /\ gameStarted
  /\ gameMode = "single"
  /\ selectedPlayer = "X"
  /\ gameStatus = "O Wins!"
  /\ HasLine(grid, "O")

\* C2 as stated: when the human chose O in single-player mode, right after
\* startGame() the board holds exactly one mark, an X of the automated side,
\* and it is the human's turn.
C2OpeningMovePersists ==
  [][(selectedPlayer = "O" /\ gameMode = "single" /\ StartGame)
       => /\ Cardinality(Marked(grid', "X")) = 1
          /\ Marked(grid', "O") = {}
          /\ currentPlayer' = "O"]_vars

\* C3: in every reachable state, for every in-range cell that is occupied,
\* and for every in-range cell once the status is not 'Playing',
\* makeMove(row, col) returns normally and leaves grid, currentPlayer,
\* gameStatus, gameMode and selectedPlayer (and gameStarted) as they were.
C3RejectedMoveIsNoOp ==
  \A row \in Rows, col \in Cols :
    (grid[row][col] # "" \/ gameStatus # "Playing")
      => makeMove(Called, row, col) = Called

\* A finished single-player game with an empty cell left: a makeMove on it
\* is rejected by the status alone, and would otherwise be answered by the
\* automated side.
C3Witness ==
  /\ gameMode = "single"
  /\ gameStatus \in {"X Wins!", "O Wins!"}
  /\ EmptyCount(grid) > 1
  /\ failure = ""

\* C4 as stated: makeMove(row, col) with row or col outside 0..2 returns
\* normally and leaves grid, currentPlayer and gameStatus unchanged.
C4OutOfRangeRejected ==
  [][\A row \in Coords, col \in Coords :
       ((row \notin Rows \/ col \notin Cols) /\ MakeMove(row, col))
         => (failure' = "" /\ UNCHANGED <<grid, currentPlayer, gameStatus>>)]_vars

\* C5 as stated: while gameStarted is false, makeMove(row, col) leaves the
\* board unchanged.
C5NoMoveBeforeStart ==
  [][\A row \in Rows, col \in Cols :
       (~gameStarted /\ MakeMove(row, col)) => grid' = grid]_vars

\* The state a successful startGame() leaves: it ends with resetGame(), so
\* the game is started on an empty board, with the selected player to move.
JustStarted ==
  /\ gameStarted
  /\ failure = ""
  /\ selectedPlayer # ""
  /\ grid = emptyGrid
  /\ gameStatus = "Playing"
  /\ currentPlayer = selectedPlayer

\* C11 as stated: right after a successful startGame(), selectPlayer(symbol)
\* and setGameMode(mode) are rejected: they leave selectedPlayer, gameMode,
\* gameStarted and the rest of the state unchanged.
C11ChangeAfterStartRejected ==
  [][(/\ JustStarted
      /\ \/ \E player \in Symbols : SelectPlayer(player)
         \/ \E mode \in Modes : SetGameMode(mode))
       => UNCHANGED <<grid, currentPlayer, gameStatus, selectedPlayer,
                      gameStarted, gameMode>>]_vars

\* C12: in every state reachable by the public methods, at most one of X
\* and O holds one of the 8 lines.
C12NoDualWin == ~(HasLine(grid, "X") /\ HasLine(grid, "O"))

\* X has won while one more O would complete a line of O: that move is the
\* one the status test of makeMove refuses.
C12Witness ==
  /\ gameStatus = "X Wins!"
  /\ HasLine(grid, "X")
  /\ CompletingCells(grid, "O") # {}

\* C13: in every state reachable by the public methods, gameStatus is
\* 'Playing' iff no line is complete and a cell is empty, 'P Wins!' iff P
\* holds a line (also when the winning mark filled the last cell), and
\* 'Draw!' iff the board is full and no line is complete.
C13StatusMatchesBoard ==
  LET won == HasLine(grid, "X") \/ HasLine(grid, "O")
      full == EmptyCells(grid) = {}
  IN /\ gameStatus = "Playing" <=> (~won /\ ~full)
     /\ \A p \in Symbols : gameStatus = Wins(p) <=> HasLine(grid, p)
     /\ gameStatus = "Draw!" <=> (full /\ ~won)

\* A game won by the mark that filled the last cell.
C13Witness ==
  /\ EmptyCells(grid) = {}
  /\ \E p \in Symbols : HasLine(grid, p) /\ gameStatus = Wins(p)

\* Whether every cell of the board that holds X or O in g holds the same
\* mark in h.
Keeps(g, h) ==
  \A row \in Rows, col \in Cols :
    g[row][col] \in Symbols => cellAt(h, row, col) = g[row][col]

\* C14: in every reachable state, a call of makeMove (with its automated
\* move and the trial marks of the search), of selectPlayer or of
\* setGameMode leaves every X and every O of the board where it is.
C14MarksWriteOnce ==
  /\ MoveExplored =>
       \A row \in Rows, col \in Cols :
         Keeps(grid, makeMove(Called, row, col).grid)
  /\ \A player \in Symbols : Keeps(grid, selectPlayer(Called, player).grid)
  /\ \A mode \in Modes : Keeps(grid, setGameMode(Called, mode).grid)

\* A single-player game in progress with marks of both symbols on the
\* board and room for a move and the automated answer the search picks.
C14Witness ==
  /\ gameMode = "single"
  /\ gameStatus = "Playing"
  /\ Marked(grid, "X") # {}
  /\ Marked(grid, "O") # {}
  /\ EmptyCount(grid) >= 2
  /\ MoveExplored

\* C15: in a single-player game started by selectPlayer(p),
\* setGameMode('single'), startGame(), every accepted makeMove(row, col)
\* returns normally having placed one mark p, on (row, col), and at most one
\* mark of the other symbol, and no other change to the board; when it
\* returns with gameStatus 'Playing' it has placed one mark of each symbol
\* and currentPlayer is p.
C15TurnHandBack ==
  (gameStarted /\ gameMode = "single" /\ selectedPlayer \in Symbols) =>
    \A row \in Rows, col \in Cols :
      accepts(Called, row, col) =>
        LET after == makeMove(Called, row, col)
            p == selectedPlayer
            placed == Marked(after.grid, p) \ Marked(grid, p)
            answered == Marked(after.grid, Other(p)) \ Marked(grid, Other(p))
        IN /\ after.failure = ""
           /\ Keeps(grid, after.grid)
           /\ placed = {<<row, col>>}
           /\ Cardinality(answered) <= 1
           /\ after.gameStatus = "Playing"
                => (Cardinality(answered) = 1 /\ after.currentPlayer = p)

\* The state an accepted makeMove returned in with 'Playing': the first
\* mark of the human O and the automated X that answered it.
C15Witness ==
  /\ gameStarted
  /\ gameMode = "single"
  /\ selectedPlayer = "O"
  /\ gameStatus = "Playing"
  /\ Cardinality(Marked(grid, "O")) = 1
  /\ Cardinality(Marked(grid, "X")) = 1
  /\ currentPlayer = "O"

\* C16 as stated: getBestMove is never invoked on a board with a completed
\* line or without an empty cell, and never returns (-1,-1).  startGame()
\* invokes it, through aiMove, exactly when StartSearches holds, on the grid
\* as it is; the (-1,-1) it returns on a full grid makes aiMove throw.
C16SearchPreconditionKept ==
  [][/\ (StartSearches /\ ~NonTerminal(grid)) => ~StartGame
     /\ failure' # "TypeError"]_vars

\* C19 as stated: in every state reachable by the public methods, the
\* numbers of X marks and of O marks on the board differ by at most one.
C19MarkBalance ==
  LET difference == Cardinality(Marked(grid, "X")) - Cardinality(Marked(grid, "O"))
  IN difference \in {-1, 0, 1}

\* C20 as stated: from every reachable state, each makeMove call that is
\* accepted (in-range empty cell, gameStatus 'Playing') strictly decreases
\* the number of empty cells.
C20AcceptedMoveFillsCell ==
  MoveExplored =>
    \A row \in Rows, col \in Cols :
      accepts(Called, row, col)
        => EmptyCount(makeMove(Called, row, col).grid) < EmptyCount(grid)

===========================================================================
